---- MODULE Spec2Model ----
(***************************************************************************)
(* Packet-header codec of src/udp/headers.rs.                              *)
(*                                                                         *)
(* Text and byte buffers are sequences of one-character strings.  Two      *)
(* bytes that are not printable are named: NUL (0x00) and XFF (0xFF, a     *)
(* byte that is never part of valid UTF-8).  A Rust panic (unwrap on       *)
(* None/Err, slice index out of range) is the outcome [tag |-> "Panic"]    *)
(* carrying the source line that panics.  A recoverable Err(..) value      *)
(* would be the outcome tag "Err"; no function of the file returns one.    *)
(***************************************************************************)
EXTENDS Integers, Sequences, FiniteSets, TLC

VARIABLES buf, nrecv, src, op, out
vars == <<buf, nrecv, src, op, out>>

\* ------------------------------------------------------------------ bounds
MaxRecv == 5
MaxSegs == 5

\* --------------------------------------------------------------- constants
U16Max == 65535
SizeOfU16 == 2

NUL == "NUL"
XFF == "xFF"
LF == "\n"
CR == "\r"

\* ------------------------------------------------------------ text helpers
Range(s) == {s[i] : i \in 1..Len(s)}

starts_with(s, p) == Len(p) <= Len(s) /\ SubSeq(s, 1, Len(p)) = p

DigitChars == <<"0", "1", "2", "3", "4", "5", "6", "7", "8", "9">>
IsDigit(c) == \E i \in 1..10 : DigitChars[i] = c
DigitVal(c) == (CHOOSE i \in 1..10 : DigitChars[i] = c) - 1

\* u16 Display: decimal, no sign, no leading zero.
RECURSIVE u16_to_string(_)
u16_to_string(n) ==
    IF n < 10 THEN <<DigitChars[n + 1]>>
    ELSE u16_to_string(n \div 10) \o <<DigitChars[(n % 10) + 1]>>

\* str::parse::<u16>: empty fails; a lone sign fails; one leading '+' is
\* accepted; '-' is an invalid digit for an unsigned type; every further
\* character must be a digit; checked_mul / checked_add fail above u16::MAX.
RECURSIVE parse_digits(_, _)
parse_digits(ds, acc) ==
    IF ds = <<>> THEN [ok |-> TRUE, val |-> acc]
    ELSE IF ~IsDigit(Head(ds)) THEN [ok |-> FALSE, val |-> 0]
    ELSE LET v == acc * 10 + DigitVal(Head(ds))
         IN IF v > U16Max THEN [ok |-> FALSE, val |-> 0]
            ELSE parse_digits(Tail(ds), v)

parse_u16(s) ==
    IF s = <<>> THEN [ok |-> FALSE, val |-> 0]
    ELSE IF Head(s) \in {"+", "-"} /\ Len(s) = 1 THEN [ok |-> FALSE, val |-> 0]
    ELSE IF Head(s) = "+" THEN parse_digits(Tail(s), 0)
    ELSE parse_digits(s, 0)

\* std::str::from_utf8 succeeds iff no byte of the slice is invalid.
from_utf8_ok(bytes) == XFF \notin Range(bytes)

\* str::lines: split_inclusive('\n'), then strip the "\n" and, only when a
\* "\n" was stripped, one "\r" before it.  The empty string has no line.
FirstLF(s) == IF LF \in Range(s) THEN CHOOSE i \in 1..Len(s) :
                                        s[i] = LF /\ \A j \in 1..(i - 1) : s[j] # LF
              ELSE 0

RECURSIVE split_inclusive(_)
split_inclusive(s) ==
    IF s = <<>> THEN <<>>
    ELSE LET i == FirstLF(s)
         IN IF i = 0 THEN <<s>>
            ELSE <<SubSeq(s, 1, i)>> \o split_inclusive(SubSeq(s, i + 1, Len(s)))

strip_line(piece) ==
    IF piece = <<>> \/ piece[Len(piece)] # LF THEN piece
    ELSE LET l == SubSeq(piece, 1, Len(piece) - 1)
         IN IF l # <<>> /\ l[Len(l)] = CR THEN SubSeq(l, 1, Len(l) - 1) ELSE l

lines(s) == LET ps == split_inclusive(s) IN [i \in 1..Len(ps) |-> strip_line(ps[i])]

\* ------------------------------------------------------------ PacketHeader
PacketHeader == {"Disc", "GET", "GETACK", "TCPReceiverExistence",
                 "UDPReceiverExistence", "StopWaitData", "StopWaitACK",
                 "StopWaitNAK", "GoBackN", "SRepeat", "Unrecognized"}

discovery == <<"D", "I", "S", "C", "\n">>
ack == <<"A", "C", "K", "\n">>
get == <<"G", "E", "T", "\n">>
stop_and_wait_data == <<"S", "W", "D">>
stop_and_wait_ack == <<"S", "W", "A">>
stop_and_wait_nak == <<"S", "W", "N">>
go_back_n == <<"G", "B", "N">>
selective_repeat == <<"S", "R">>
tcp_get == <<"T", "C", "P", "G", "E", "T">>

Ok(v) == [tag |-> "Ok", val |-> v]
Panic(line) == [tag |-> "Panic", at |-> line]
None == [tag |-> "None"]

\* lines().next(): Some(first line) or None
lines_next(s) == LET ls == lines(s)
                 IN IF Len(ls) = 0 THEN [some |-> FALSE, val |-> <<>>]
                    ELSE [some |-> TRUE, val |-> ls[1]]

unwrap_or(opt, default) == IF opt.some THEN opt.val ELSE default

\* the if / else-if chain over the re-terminated first line
match_header(header) ==
    IF starts_with(header, discovery) THEN "Disc"
    ELSE IF starts_with(header, get) THEN "GET"
    ELSE IF starts_with(header, ack) THEN "GETACK"
    ELSE IF starts_with(header, tcp_get) THEN "TCPReceiverExistence"
    ELSE IF starts_with(header, stop_and_wait_data) THEN "StopWaitData"
    ELSE IF starts_with(header, stop_and_wait_ack) THEN "StopWaitACK"
    ELSE IF starts_with(header, stop_and_wait_nak) THEN "StopWaitNAK"
    ELSE IF starts_with(header, go_back_n) THEN "GoBackN"
    ELSE IF starts_with(header, selective_repeat) THEN "SRepeat"
    ELSE "Unrecognized"

\* plausible slip: .unwrap() in place of .unwrap_or("")
packet_type_unwrap(packet_str) ==
    IF ~lines_next(packet_str).some THEN Panic(64)
    ELSE Ok(match_header(lines_next(packet_str).val \o <<"\n">>))

\* plausible slip: the first line is matched without the re-appended "\n"
packet_type_no_newline(packet_str) ==
    Ok(match_header(unwrap_or(lines_next(packet_str), <<>>)))

packet_type(packet_str) ==
    LET header_str == unwrap_or(lines_next(packet_str), <<>>)
        header == header_str \o <<"\n">>
    IN Ok(match_header(header))

fmt(self) ==
    IF self = "Disc" THEN discovery
    ELSE IF self = "GET" THEN discovery
    ELSE IF self = "GETACK" THEN ack
    ELSE IF self = "TCPReceiverExistence" THEN tcp_get
    ELSE IF self = "StopWaitData" THEN stop_and_wait_data
    ELSE IF self = "StopWaitACK" THEN stop_and_wait_ack
    ELSE IF self = "StopWaitNAK" THEN stop_and_wait_nak
    ELSE IF self = "GoBackN" THEN go_back_n
    ELSE IF self = "SRepeat" THEN selective_repeat
    ELSE discovery

\* --------------------------------------------------------------- TCPHeader
TCPHeader_new(conn_type, udp_get_port, file_name) ==
    [conn_type |-> conn_type, udp_get_port |-> udp_get_port, file_name |-> file_name]

\* plausible slip: the port parse is unwrapped instead of defaulted
TCPHeader_from_string_strict(packet) ==
    LET packet_lines == lines(packet)
    IN IF Len(packet_lines) < 1 THEN Panic(135)
       ELSE IF Len(packet_lines) < 2 THEN Panic(137)
       ELSE IF ~parse_u16(packet_lines[2]).ok THEN Panic(137)
       ELSE LET conn_type == packet_type(packet_lines[1])
                file_name == IF Len(packet_lines) < 3 THEN <<>> ELSE packet_lines[3]
            IN IF conn_type.tag = "Panic" THEN conn_type
               ELSE Ok(TCPHeader_new(conn_type.val, parse_u16(packet_lines[2]).val,
                                     file_name))

TCPHeader_from_string(packet) ==
    LET packet_lines == lines(packet)
    IN IF Len(packet_lines) < 1 THEN Panic(135)
       ELSE LET conn_type == packet_type(packet_lines[1])
            IN IF conn_type.tag = "Panic" THEN conn_type
               ELSE IF Len(packet_lines) < 2 THEN Panic(137)
               ELSE LET parsed == parse_u16(packet_lines[2])
                        udp_get_port == IF parsed.ok THEN parsed.val ELSE 0
                        file_name == IF Len(packet_lines) < 3 THEN <<>>
                                     ELSE packet_lines[3]
                    IN Ok(TCPHeader_new(conn_type.val, udp_get_port, file_name))

TCPHeader_to_string(self) ==
    fmt(self.conn_type) \o <<"\n">> \o u16_to_string(self.udp_get_port)
        \o <<"\n">> \o self.file_name

\* ------------------------------------------------------- StopAndWaitHeader
StopAndWaitHeader_new(header_size, get_port, rdt_port, file_name) ==
    [header_size |-> header_size, get_port |-> get_port,
     rdt_port |-> rdt_port, file_name |-> file_name]

u16_from_bytes(b) ==
    IF ~from_utf8_ok(b) THEN Panic(187)
    ELSE LET parsed == parse_u16(b)
         IN IF parsed.ok THEN Ok(parsed.val) ELSE Panic(188)

\* buf[a..b] in Rust's 0-based half-open indexing; the caller checks the range
slice(b, from, to) == SubSeq(b, from + 1, to)
slice_ok(b, from, to) == from <= to /\ to <= Len(b)

\* plausible slip: the two port slots are read in the wrong order
StopAndWaitHeader_from_string_swapped(b) ==
    LET size == SizeOfU16
    IN IF ~slice_ok(b, 0, size * 3) THEN Panic(193)
       ELSE LET header_size == u16_from_bytes(slice(b, 0, size))
                get_port == u16_from_bytes(slice(b, size * 2, size * 3))
                rdt_port == u16_from_bytes(slice(b, size, size * 2))
            IN IF header_size.tag = "Panic" THEN header_size
               ELSE IF get_port.tag = "Panic" THEN get_port
               ELSE IF rdt_port.tag = "Panic" THEN rdt_port
               ELSE IF ~slice_ok(b, size * 3, header_size.val) THEN Panic(197)
               ELSE IF ~from_utf8_ok(slice(b, size * 3, header_size.val)) THEN Panic(198)
               ELSE Ok(StopAndWaitHeader_new(header_size.val, get_port.val, rdt_port.val,
                                             slice(b, size * 3, header_size.val)))

\* plausible slip: the file name runs to the end of the buffer
StopAndWaitHeader_from_string_rest(b) ==
    LET size == SizeOfU16
    IN IF ~slice_ok(b, 0, size * 3) THEN Panic(193)
       ELSE LET header_size == u16_from_bytes(slice(b, 0, size))
                get_port == u16_from_bytes(slice(b, size, size * 2))
                rdt_port == u16_from_bytes(slice(b, size * 2, size * 3))
            IN IF header_size.tag = "Panic" THEN header_size
               ELSE IF get_port.tag = "Panic" THEN get_port
               ELSE IF rdt_port.tag = "Panic" THEN rdt_port
               ELSE IF ~slice_ok(b, size * 3, header_size.val) THEN Panic(197)
               ELSE IF ~from_utf8_ok(slice(b, size * 3, Len(b))) THEN Panic(198)
               ELSE Ok(StopAndWaitHeader_new(header_size.val, get_port.val, rdt_port.val,
                                             slice(b, size * 3, Len(b))))

StopAndWaitHeader_from_string(b) ==
    LET size == SizeOfU16
    IN IF ~slice_ok(b, 0, size) THEN Panic(193)
       ELSE LET header_size == u16_from_bytes(slice(b, 0, size))
            IN IF header_size.tag = "Panic" THEN header_size
       ELSE IF ~slice_ok(b, size, size * 2) THEN Panic(195)
       ELSE LET get_port == u16_from_bytes(slice(b, size, size * 2))
            IN IF get_port.tag = "Panic" THEN get_port
       ELSE IF ~slice_ok(b, size * 2, size * 3) THEN Panic(196)
       ELSE LET rdt_port == u16_from_bytes(slice(b, size * 2, size * 3))
            IN IF rdt_port.tag = "Panic" THEN rdt_port
       ELSE IF ~slice_ok(b, size * 3, header_size.val) THEN Panic(197)
       ELSE IF ~from_utf8_ok(slice(b, size * 3, header_size.val)) THEN Panic(198)
       ELSE Ok(StopAndWaitHeader_new(header_size.val, get_port.val, rdt_port.val,
                                     slice(b, size * 3, header_size.val)))

packet_size(file_name) == SizeOfU16 * 3 + Len(file_name)

\* ------------------------------------------------------------------ inputs
Tokens == {SubSeq(discovery, 1, 4), SubSeq(get, 1, 3), SubSeq(ack, 1, 3),
           tcp_get, stop_and_wait_data, stop_and_wait_ack, stop_and_wait_nak,
           go_back_n, selective_repeat}
HeaderChunks == Tokens \cup {<<"x">> \o t : t \in Tokens}
TextChunks == {<<"\n">>, <<"\r">>, <<"x">>, <<"7">>, <<"+">>, <<"-">>,
               <<"6", "5", "5", "3", "6">>}
Ports == {0, 7, 8080, U16Max}
FileNames == {<<>>, <<"x">>, <<"7">>}

\* ----------------------------------------------------------- state machine
Init ==
    /\ buf = <<>>
    /\ nrecv = 0
    /\ src = [by |-> "recv"]
    /\ op = "idle"
    /\ out = None

\* the transport delivers the start of a packet: a kind token, possibly
\* after a stray character
ReceiveHeader ==
    /\ src.by = "recv"
    /\ buf = <<>>
    /\ nrecv < MaxRecv
    /\ \E c \in HeaderChunks : buf' = c
    /\ nrecv' = nrecv + 1
    /\ op' = "recv"
    /\ out' = None
    /\ UNCHANGED src

\* the transport appends received text to the buffer under construction
ReceiveText ==
    /\ src.by = "recv"
    /\ nrecv < MaxRecv
    /\ \E c \in TextChunks : buf' = buf \o c
    /\ nrecv' = nrecv + 1
    /\ op' = "recv"
    /\ out' = None
    /\ UNCHANGED src

\* a caller starts a fresh conversion once the previous one is finished
Fresh == op = "idle" \/ (src.by # "recv" /\ op \in {"classify", "decode"})

Render ==
    \E kind \in PacketHeader :
      /\ Fresh
      /\ buf' = fmt(kind)
      /\ src' = [by |-> "render", kind |-> kind]
      /\ nrecv' = 0
      /\ op' = "render"
      /\ out' = None

Encode ==
    \E kind \in PacketHeader, port \in Ports, name \in FileNames :
      LET h == TCPHeader_new(kind, port, name)
      IN /\ Fresh
         /\ buf' = TCPHeader_to_string(h)
         /\ src' = [by |-> "encode", header |-> h]
         /\ nrecv' = 0
         /\ op' = "encode"
         /\ out' = None

Classify ==
    /\ op # "classify"
    /\ out' = packet_type(buf)
    /\ op' = "classify"
    /\ UNCHANGED <<buf, nrecv, src>>

Decode ==
    /\ op # "decode"
    /\ out' = TCPHeader_from_string(buf)
    /\ op' = "decode"
    /\ UNCHANGED <<buf, nrecv, src>>

\* ---------------------------------------------------- data-channel machine
DataChunks == {<<"0", "5">>, <<"0", "6">>, <<"0", "7">>, <<"0", "8">>,
               <<"1", "0">>, <<"2", "0">>, <<"+", "9">>,
               <<"a">>, <<NUL>>, <<XFF>>}
HeaderSizes == {0, 6, 7, U16Max}
DataNames == {<<>>, <<"a">>, <<"a", NUL>>}

\* the datagram transport appends received bytes to the segment buffer
ReceiveSeg ==
    /\ src.by = "recv"
    /\ nrecv < MaxSegs
    /\ \E c \in DataChunks : buf' = buf \o c
    /\ nrecv' = nrecv + 1
    /\ op' = "recv"
    /\ out' = None
    /\ UNCHANGED src

SwDecode ==
    /\ op # "sw_decode"
    /\ src.by = "recv"
    /\ out' = StopAndWaitHeader_from_string(buf)
    /\ op' = "sw_decode"
    /\ UNCHANGED <<buf, nrecv, src>>

\* a sender constructs a header value from the arguments it chooses
SwNew ==
    \E hs \in HeaderSizes, gp \in Ports, rp \in Ports, name \in DataNames :
      /\ op \in {"idle", "sw_new", "packet_size"}
      /\ out' = Ok(StopAndWaitHeader_new(hs, gp, rp, name))
      /\ src' = [by |-> "new", header_size |-> hs, file_name |-> name]
      /\ op' = "sw_new"
      /\ UNCHANGED <<buf, nrecv>>

PacketSize ==
    \E name \in DataNames :
      /\ op \in {"idle", "sw_new", "packet_size"}
      /\ out' = Ok(packet_size(name))
      /\ src' = [by |-> "size", file_name |-> name]
      /\ op' = "packet_size"
      /\ UNCHANGED <<buf, nrecv>>

DataNext == ReceiveSeg \/ SwDecode \/ SwNew \/ PacketSize

DataSpec == Init /\ [][DataNext]_vars

Next == ReceiveHeader \/ ReceiveText \/ Render \/ Encode \/ Classify \/ Decode

Spec == Init /\ [][Next]_vars

\* ================================================================== claims
\* The token table of the design (kind, canonical token) in priority order.
TokenTable == <<
    [kind |-> "Disc", token |-> <<"D", "I", "S", "C", "\n">>],
    [kind |-> "GET", token |-> <<"G", "E", "T", "\n">>],
    [kind |-> "GETACK", token |-> <<"A", "C", "K", "\n">>],
    [kind |-> "TCPReceiverExistence", token |-> <<"T", "C", "P", "G", "E", "T">>],
    [kind |-> "StopWaitData", token |-> <<"S", "W", "D">>],
    [kind |-> "StopWaitACK", token |-> <<"S", "W", "A">>],
    [kind |-> "StopWaitNAK", token |-> <<"S", "W", "N">>],
    [kind |-> "GoBackN", token |-> <<"G", "B", "N">>],
    [kind |-> "SRepeat", token |-> <<"S", "R">>] >>
MappedKinds == {TokenTable[i].kind : i \in 1..Len(TokenTable)}
TableIndex(kind) == CHOOSE i \in 1..Len(TokenTable) : TokenTable[i].kind = kind
TableToken(kind) == TokenTable[TableIndex(kind)].token

\* Lines of a text, read character by character: a line is the text up to the
\* next "\n", without a "\r" that stands directly before that "\n".
HasLF(s) == \E i \in 1..Len(s) : s[i] = LF

RECURSIVE TextUpToLF(_)
TextUpToLF(s) == IF s = <<>> \/ Head(s) = LF THEN <<>>
                 ELSE <<Head(s)>> \o TextUpToLF(Tail(s))

RECURSIVE AfterLF(_)
AfterLF(s) == IF s = <<>> THEN <<>>
              ELSE IF Head(s) = LF THEN Tail(s) ELSE AfterLF(Tail(s))

LineText(s) == LET t == TextUpToLF(s)
               IN IF HasLF(s) /\ t # <<>> /\ t[Len(t)] = CR
                  THEN SubSeq(t, 1, Len(t) - 1) ELSE t

RECURSIVE LineCount(_)
LineCount(s) == IF s = <<>> THEN 0
                ELSE IF HasLF(s) THEN 1 + LineCount(AfterLF(s)) ELSE 1

RECURSIVE NthLine(_, _)
NthLine(s, n) == IF n <= 1 THEN LineText(s) ELSE NthLine(AfterLF(s), n - 1)

\* indices of the table's tokens that are a prefix of (first line + "\n")
Matches(b) == {i \in 1..Len(TokenTable) :
                 starts_with(LineText(b) \o <<LF>>, TokenTable[i].token)}
FirstMatch(b) == CHOOSE i \in Matches(b) : \A j \in Matches(b) : i <= j
ClassifyByTable(b) == IF Matches(b) = {} THEN "Unrecognized"
                      ELSE TokenTable[FirstMatch(b)].kind

\* decimal text of an unsigned 16-bit number: digits, at most one leading '+';
\* the value of the digits, read from the right, saturating above 65535
RECURSIVE DecValue(_)
DecValue(d) == IF d = <<>> THEN 0
               ELSE LET front == DecValue(SubSeq(d, 1, Len(d) - 1))
                    IN IF front > 65535 THEN 65536
                       ELSE front * 10 + DigitVal(d[Len(d)])
ValidU16Text(s) ==
    /\ s # <<>>
    /\ LET d == IF Head(s) = "+" THEN Tail(s) ELSE s
       IN /\ d # <<>>
          /\ \A i \in 1..Len(d) : IsDigit(d[i])
          /\ DecValue(d) <= 65535

\* C1: classifying the text rendered for one of the nine mapped kinds gives
\* that kind back (stated as the claim states it; the code breaks it for GET)
C1_ClassifyRenderRoundTrip ==
    (op = "classify" /\ src.by = "render" /\ src.kind \in MappedKinds)
        => (out.tag = "Ok" /\ out.val = src.kind)

\* C2: decoding the buffer produced by Encode(h), for h with a mapped kind and
\* a file name without newline, gives back kind, port and file name of h
C2_DecodeEncodeRoundTrip ==
    (op = "decode" /\ src.by = "encode"
       /\ src.header.conn_type \in MappedKinds
       /\ LF \notin Range(src.header.file_name))
        => (out.tag = "Ok" /\ out.val = src.header)

\* C3: Classify is total: every buffer, the empty one and those without a
\* newline included, classifies to exactly one PacketKind without failing,
\* and to Unrecognized whenever no token of the table matches
C3_ClassifyTotal ==
    op = "classify"
        => /\ out.tag = "Ok"
           /\ out.val \in PacketHeader
           /\ (Matches(buf) = {} => out.val = "Unrecognized")

C3_Witness ==
    op = "classify" /\ buf = <<>> /\ out.tag = "Ok" /\ out.val = "Unrecognized"

\* C6: decoding a control header succeeds for every buffer that has at least
\* one line (stated as the claim states it; the code needs two lines)
C6_DecodeNeedsOnlyFirstLine ==
    (op = "decode" /\ LineCount(buf) >= 1) => out.tag = "Ok"

\* C7: a control header with at least two lines whose second line is not a
\* valid unsigned 16-bit decimal decodes successfully to port 0, the kind of
\* line 1 and line 3 verbatim as file name (empty when there is no line 3)
C7_BadPortDefaultsToZero ==
    (op = "decode" /\ LineCount(buf) >= 2 /\ ~ValidU16Text(NthLine(buf, 2)))
        => /\ out.tag = "Ok"
           /\ out.val.udp_get_port = 0
           /\ out.val.conn_type = ClassifyByTable(NthLine(buf, 1))
           /\ out.val.file_name = (IF LineCount(buf) >= 3 THEN NthLine(buf, 3)
                                   ELSE <<>>)

C7_Witness ==
    /\ op = "decode"
    /\ buf = <<"D", "I", "S", "C", "\n", "x", "\n", "x">>
    /\ out.tag = "Ok"
    /\ out.val = [conn_type |-> "Disc", udp_get_port |-> 0, file_name |-> <<"x">>]

\* C8: Render gives every mapped kind its own token of the table, and the
\* Discovery token only to the unmapped kinds (stated as the claim states it;
\* the code renders GET as the Discovery token)
C8_RenderOwnToken ==
    op = "render"
        => buf = (IF src.kind \in MappedKinds THEN TableToken(src.kind)
                  ELSE TableToken("Disc"))

\* C9: Classify returns the kind of the first table token, in priority
\* order, that is a prefix of (first line + "\n"), Unrecognized if none is;
\* the newline-terminated tokens match exactly the first lines DISC, GET and
\* ACK, the other six match every first line that starts with the token
C9_ClassifyFirstMatch ==
    op = "classify"
        => /\ out.tag = "Ok"
           /\ out.val = ClassifyByTable(buf)
           /\ \A i \in 1..3 :
                (out.val = TokenTable[i].kind)
                    <=> (LineText(buf) \o <<LF>> = TokenTable[i].token)
           /\ \A i \in 4..9 :
                starts_with(LineText(buf), TokenTable[i].token)
                    => out.val = TokenTable[i].kind

C9_Witness ==
    /\ op = "classify"
    /\ starts_with(buf, <<"S", "W", "A", "x", "\n">>)
    /\ Len(buf) > 5
    /\ out.tag = "Ok"
    /\ out.val = "StopWaitACK"

\* ------------------------------------------------------- data-header claims
SlotIsDecimal(b, k) == IsDigit(b[k]) /\ IsDigit(b[k + 1])
SlotValue(b, k) == DigitVal(b[k]) * 10 + DigitVal(b[k + 1])
WellFormedData(b) ==
    /\ Len(b) >= 6
    /\ SlotIsDecimal(b, 1) /\ SlotIsDecimal(b, 3) /\ SlotIsDecimal(b, 5)
    /\ 6 <= SlotValue(b, 1)
    /\ SlotValue(b, 1) <= Len(b)
DecodedAsLaidOut(b) ==
    /\ out.tag = "Ok"
    /\ out.val.header_size = SlotValue(b, 1)
    /\ out.val.get_port = SlotValue(b, 3)
    /\ out.val.rdt_port = SlotValue(b, 5)
    /\ out.val.file_name = SubSeq(b, 7, SlotValue(b, 1))

\* C4 as stated: every buffer with three 2-digit decimal slots and
\* 6 <= header_size <= length decodes to the three numbers and to bytes
\* [6, header_size) as file name
C4_DecodeLayout_AsStated ==
    (op = "sw_decode" /\ WellFormedData(buf)) => DecodedAsLaidOut(buf)

\* C4 amended: the same, for buffers whose bytes [6, header_size) are valid
\* UTF-8; bytes from offset header_size onward are ignored
C4_DecodeLayout ==
    (op = "sw_decode" /\ WellFormedData(buf)
       /\ XFF \notin Range(SubSeq(buf, 7, SlotValue(buf, 1))))
        => DecodedAsLaidOut(buf)

C4_Witness ==
    /\ op = "sw_decode"
    /\ WellFormedData(buf)
    /\ out.tag = "Ok"
    /\ out.val.file_name # <<>>
    /\ Len(buf) > out.val.header_size

\* C5: decoding a data header that violates the layout ends in a recoverable
\* MalformedHeader error result, not in an abort (stated as the claim states
\* it; the code panics)
C5_MalformedIsRecoverable ==
    (op = "sw_decode" /\ ~WellFormedData(buf)) => out.tag = "Err"

\* C10 as stated: every DataHeader value, constructed or decoded, has
\* header_size = 6 + byte length of file_name = PacketSize(file_name)
C10_HeaderSize_AsStated ==
    (op \in {"sw_new", "sw_decode"} /\ out.tag = "Ok")
        => /\ out.val.header_size = 6 + Len(out.val.file_name)
           /\ out.val.header_size = packet_size(out.val.file_name)

\* C10 amended: every DataHeader returned by Decode has header_size =
\* 6 + byte length of file_name = PacketSize(file_name); a constructed one
\* carries the header_size its caller passed
C10_HeaderSize ==
    /\ (op = "sw_decode" /\ out.tag = "Ok")
         => /\ out.val.header_size = 6 + Len(out.val.file_name)
            /\ out.val.header_size = packet_size(out.val.file_name)
    /\ op = "sw_new" => out.val.header_size = src.header_size
    /\ op = "packet_size" => out.val = 6 + Len(src.file_name)

C10_Witness ==
    /\ op = "sw_decode"
    /\ out.tag = "Ok"
    /\ out.val.header_size = 8
    /\ out.val.file_name = <<"a", NUL>>

====
